---------------------------- MODULE Spec2Model ----------------------------
(***************************************************************************)
(* A state-machine model of src/mesh/NodeDB.cpp: the device state record,  *)
(* its default synthesis, load and save, the radio configuration           *)
(* normalisation, the node number allocator and the bounded node table.    *)
(***************************************************************************)
EXTENDS Integers, Sequences, FiniteSets, TLC

(***************************************************************************)
(* Program constants                                                       *)
(***************************************************************************)
DEVICESTATE_CUR_VER == 11
DEVICESTATE_MIN_VER == DEVICESTATE_CUR_VER
NUM_RESERVED == 4
NUM_ONLINE_SECS == 60 * 2

(***************************************************************************)
(* A uint32_t is the pair <<high 16 bits, low 16 bits>>: node numbers and   *)
(* times keep their 32 bits, and every number TLC computes stays small.    *)
(***************************************************************************)
U32(hi, lo) == <<hi, lo>>
U32Zero == U32(0, 0)
\* a < n for a small constant n
Below32(a, n) == a[1] = 0 /\ a[2] < n
\* the value of a small constant
Small32(n) == U32(0, n)

\* a - b and a + k in 32 bits, k a small constant
Sub32(a, b) ==
    LET lo == a[2] - b[2]
        borrow == IF lo < 0 THEN 1 ELSE 0
    IN  U32((a[1] - b[1] - borrow + 65536) % 65536, (lo + 65536) % 65536)
Add32(a, k) ==
    LET lo == a[2] + k
    IN  U32((a[1] + (lo \div 65536)) % 65536, lo % 65536)
\* a <= b as unsigned numbers
Le32(a, b) == a[1] < b[1] \/ (a[1] = b[1] /\ a[2] <= b[2])
\* (int)a < 0: the top bit is set
Negative32(a) == a[1] >= 32768

NODENUM_BROADCAST == U32(65535, 65535)
ACTIVE_PSK_LEN == 32
MIN_APP_VERSION == 20120

\* The table capacity (32 in the firmware), scaled down for checking.
MAX_NUM_NODES == 2

\* resetRadioConfig is not called any more once radioGeneration has got this far.
MaxGeneration == 4

\* How many times the device may be powered up again after the first boot.
MaxBoots == 1

\* The passes of the loop of pickNewNodeNum are counted up to this number.
MaxRetries == 3

defaultpsk == <<212, 241, 187, 58, 32, 41, 7, 89, 240, 188, 255, 171, 207, 78, 105, 191>>

Slots == 1..MAX_NUM_NODES

(***************************************************************************)
(* Strings that the code formats or parses are sequences of characters.    *)
(***************************************************************************)
HexLower == <<"0","1","2","3","4","5","6","7","8","9","a","b","c","d","e","f">>
HexUpper == <<"0","1","2","3","4","5","6","7","8","9","A","B","C","D","E","F">>

\* printf("%02x", b) and printf("%02X", b) of a byte
Hex02x(b) == <<HexLower[(b \div 16) + 1], HexLower[(b % 16) + 1]>>
Hex02X(b) == <<HexUpper[(b \div 16) + 1], HexUpper[(b % 16) + 1]>>

\* strncmp(s, p, Len(p)) == 0
HasPrefix(s, p) == Len(s) >= Len(p) /\ SubSeq(s, 1, Len(p)) = p

\* Statement sequencing: F applied to the value of e, with e evaluated once
\* (LET v == e IN F(v)).
Bind(e, F(_)) == CHOOSE y \in {F(v) : v \in {e}} : TRUE

(***************************************************************************)
(* The zeroed records (memset 0)                                           *)
(***************************************************************************)
ZeroMac == <<0, 0, 0, 0, 0, 0>>

ZeroUser == [id |-> <<>>, long_name |-> <<>>, short_name |-> <<>>, macaddr |-> ZeroMac]

ZeroPosition == [time |-> U32Zero, latitude_i |-> 0]

ZeroNodeInfo ==
    [num |-> U32Zero, has_user |-> FALSE, user |-> ZeroUser,
     has_position |-> FALSE, position |-> ZeroPosition, snr |-> 0]

ZeroMyNodeInfo ==
    [my_node_num |-> U32Zero, has_gps |-> FALSE, region |-> <<>>,
     node_num_bits |-> 0, packet_id_bits |-> 0,
     error_code |-> "None", error_address |-> 0, error_count |-> 0,
     min_app_version |-> 0, firmware_version |-> "", hw_model |-> "",
     message_timeout_msec |-> "0"]

ZeroPreferences ==
    [factory_reset |-> FALSE, region |-> "Unset",
     screen_on_secs |-> 0, wait_bluetooth_secs |-> 0,
     position_broadcast_secs |-> 0, ls_secs |-> 0]

ZeroChannelSettings ==
    [psk |-> <<>>, name |-> "", modem_config |-> "Bw125Cr45Sf128",
     bandwidth |-> 0, tx_power |-> 0]

ZeroRadioConfig ==
    [has_channel_settings |-> FALSE, has_preferences |-> FALSE,
     preferences |-> ZeroPreferences, channel_settings |-> ZeroChannelSettings]

ZeroDeviceState ==
    [version |-> 0, no_save |-> FALSE,
     has_my_node |-> FALSE, has_radio |-> FALSE, has_owner |-> FALSE,
     my_node |-> ZeroMyNodeInfo, radio |-> ZeroRadioConfig, owner |-> ZeroUser,
     node_db |-> [i \in Slots |-> ZeroNodeInfo], node_db_count |-> 0]


(***************************************************************************)
(* Values of the build and of the hardware                                 *)
(***************************************************************************)
APP_VERSION == "1.1.20"
HW_VENDOR == "tbeam"
FLOOD_EXPIRE_TIME == "FLOOD_EXPIRE_TIME"

\* sizeof(NodeNum) * 8 and sizeof(PacketId) * 8
NodeNumBits == 4 * 8
PacketIdBits == 4 * 8

\* The region table: r->name to r->code, for the entries before the Unset end marker
RegionNames == {<<"U","S">>, <<"E","U","4","3","3">>, <<"T","W">>}

RegionCodeOf(name) ==
    CASE name = <<"U","S">> -> "US"
      [] name = <<"E","U","4","3","3">> -> "EU433"
      [] name = <<"T","W">> -> "TW"
      [] OTHER -> "Unset"

(***************************************************************************)
(* The node table                                                          *)
(***************************************************************************)
\* NodeDB::getNode: the first slot below the count whose num is n; 0 for NULL
\* A scan that stops one slot short of the count
getNode_StopsShort(ds, n) ==
    LET hits == {i \in 1..(ds.node_db_count - 1) : ds.node_db[i].num = n}
    IN  IF hits = {} THEN 0 ELSE CHOOSE i \in hits : \A j \in hits : i <= j

getNode(ds, n) ==
    LET hits == {i \in 1..ds.node_db_count : ds.node_db[i].num = n}
    IN  IF hits = {} THEN 0 ELSE CHOOSE i \in hits : \A j \in hits : i <= j

\* An append that checks the capacity only after counting the new entry
getOrCreateNode_CountsFirst(ds, n) ==
    LET info == getNode(ds, n)
    IN  IF info # 0
          THEN [ds |-> ds, info |-> info, fatal |-> FALSE]
          ELSE LET slot == ds.node_db_count + 1
               IN  IF slot \in Slots
                     THEN [ds |-> [ds EXCEPT !.node_db_count = slot,
                                             !.node_db[slot] = [ZeroNodeInfo EXCEPT !.num = n]],
                           info |-> slot, fatal |-> FALSE]
                     ELSE [ds |-> [ds EXCEPT !.node_db_count = slot],
                           info |-> 0, fatal |-> TRUE]

\* A getOrCreateNode that takes a new slot without looking the number up
getOrCreateNode_AlwaysAppends(ds, n) ==
    IF ~(ds.node_db_count < MAX_NUM_NODES)
      THEN [ds |-> ds, info |-> getNode(ds, n), fatal |-> getNode(ds, n) = 0]
      ELSE LET slot == ds.node_db_count + 1
           IN  [ds |-> [ds EXCEPT !.node_db_count = slot,
                                  !.node_db[slot] = [ZeroNodeInfo EXCEPT !.num = n]],
                info |-> slot, fatal |-> FALSE]

\* NodeDB::getOrCreateNode: the record after the call, the slot returned, and whether
\* the assert on the capacity stopped the program.
getOrCreateNode(ds, n) ==
    LET info == getNode(ds, n)
    IN  IF info # 0
          THEN [ds |-> ds, info |-> info, fatal |-> FALSE]
          ELSE IF ~(ds.node_db_count < MAX_NUM_NODES)
                 THEN [ds |-> ds, info |-> 0, fatal |-> TRUE]
                 ELSE LET slot == ds.node_db_count + 1
                      IN  [ds |-> [ds EXCEPT !.node_db_count = slot,
                                             !.node_db[slot] = [ZeroNodeInfo EXCEPT !.num = n]],
                           info |-> slot, fatal |-> FALSE]

(***************************************************************************)
(* The node number allocator                                               *)
(***************************************************************************)
\* The loop condition of pickNewNodeNum: r is in the table under another MAC
InUseByOther(ds, r) ==
    LET found == getNode(ds, r)
    IN  found # 0 /\ ds.node_db[found].user.macaddr # ds.owner.macaddr

\* A start of the loop that takes the number as it is
PickStart_AsStored(m) ==
    LET mac == m.ourMacAddr
        r0  == m.devicestate.my_node.my_node_num
    IN  IF r0 = U32Zero
          THEN U32(mac[3] * 256 + mac[4], mac[5] * 256 + mac[6])
          ELSE r0

\* The candidate pickNewNodeNum starts its loop with
PickStart(m) ==
    LET mac == m.ourMacAddr
        r0  == m.devicestate.my_node.my_node_num
        r1  == IF r0 = U32Zero
                 THEN U32(mac[3] * 256 + mac[4], mac[5] * 256 + mac[6])
                 ELSE r0
    IN  IF r1 = NODENUM_BROADCAST \/ Below32(r1, NUM_RESERVED)
          THEN Small32(NUM_RESERVED) ELSE r1

\* A pass of the loop that does not take the number drawn
NextCandidate_Keeps(r, n) == r

\* Lines 342-344: a pass of the loop, r the candidate found in use and n the number
\* random() returns
NextCandidate(r, n) == n

\* NodeDB::pickNewNodeNum. rnd is the value random() returns in the last pass of the
\* while loop that is followed (earlier passes leave no trace); done is FALSE when the
\* loop goes on after it.
pickNewNodeNum(m, rnd) ==
    LET r == PickStart(m)
        ds == m.devicestate
    IN  IF ~InUseByOther(ds, r)
          THEN [m |-> [m EXCEPT !.devicestate.my_node.my_node_num = r], done |-> TRUE]
          ELSE IF ~InUseByOther(ds, rnd)
                 THEN [m |-> [m EXCEPT !.devicestate.my_node.my_node_num = rnd], done |-> TRUE]
                 ELSE [m |-> m, done |-> FALSE]

(***************************************************************************)
(* The radio configuration and the default device state                    *)
(***************************************************************************)
\* channelName is a pointer: into channelSettings.name, or to a string literal
NamePtr == [inName |-> TRUE, lit |-> ""]
Literal(str) == [inName |-> FALSE, lit |-> str]

\* The string channelName points to
ChannelNameStr(m) ==
    IF m.channelName.inName THEN m.devicestate.radio.channel_settings.name
                            ELSE m.channelName.lit

\* Lines 122-138: the defaults installed when there is no key at all
DefaultPreferences(ds) ==
    [ds EXCEPT !.radio.has_channel_settings = TRUE,
               !.radio.has_preferences = TRUE,
               !.radio.channel_settings.modem_config = "Bw125Cr48Sf4096",
               !.radio.channel_settings.tx_power = 0,
               !.radio.channel_settings.psk = <<1>>,
               !.radio.channel_settings.name = ""]

\* Lines 140-142: the old name "Default" becomes the empty name
ConvertDefaultName(ds) ==
    IF ds.radio.channel_settings.name = "Default"
      THEN [ds EXCEPT !.radio.channel_settings.name = ""]
      ELSE ds

\* Lines 144-170: the usable channel name
ResolveChannelName(ds) ==
    LET cs == ds.radio.channel_settings
    IN  IF cs.name # "" THEN NamePtr
        ELSE IF cs.bandwidth # 0 THEN Literal("Unset")
        ELSE CASE cs.modem_config = "Bw125Cr45Sf128" -> Literal("Medium")
               [] cs.modem_config = "Bw500Cr45Sf128" -> Literal("ShortFast")
               [] cs.modem_config = "Bw31_25Cr48Sf512" -> Literal("LongAlt")
               [] cs.modem_config = "Bw125Cr48Sf4096" -> Literal("LongSlow")
               [] OTHER -> Literal("Invalid")

\* Lines 172-177: the full default key becomes the short key 1
ConvertDefaultPsk(ds) ==
    IF ds.radio.channel_settings.psk = defaultpsk
      THEN [ds EXCEPT !.radio.channel_settings.psk = <<1>>]
      ELSE ds

\* memcpy(dst, src, Len(src)) into a buffer: the bytes after the copy stay
CopyInto(buf, src) ==
    [i \in 1..Len(buf) |-> IF i <= Len(src) THEN src[i] ELSE buf[i]]

\* A key expansion that does not copy the default key before it moves the last byte
ExpandPsk_SkipsDefaultCopy(activePSK, psk) ==
    LET copied == CopyInto(activePSK, psk)
    IN  IF Len(psk) = 1
          THEN LET pskIndex == copied[1]
               IN  IF pskIndex = 0
                     THEN [key |-> copied, size |-> 0]
                     ELSE LET last == Len(defaultpsk)
                          IN  [key |-> [copied EXCEPT ![last] = (copied[last] + pskIndex - 1) % 256],
                               size |-> Len(defaultpsk)]
          ELSE [key |-> copied, size |-> Len(psk)]

\* A key expansion whose last byte is not kept within a byte
ExpandPsk_NoWrap(activePSK, psk) ==
    LET copied == CopyInto(activePSK, psk)
    IN  IF Len(psk) = 1
          THEN LET pskIndex == copied[1]
               IN  IF pskIndex = 0
                     THEN [key |-> copied, size |-> 0]
                     ELSE LET full == CopyInto(copied, defaultpsk)
                              last == Len(defaultpsk)
                          IN  [key |-> [full EXCEPT ![last] = full[last] + pskIndex - 1],
                               size |-> Len(defaultpsk)]
          ELSE [key |-> copied, size |-> Len(psk)]

\* Lines 179-194: the active key and its size, from the stored key
ExpandPsk(activePSK, psk) ==
    LET copied == CopyInto(activePSK, psk)
    IN  IF Len(psk) = 1
          THEN LET pskIndex == copied[1]
               IN  IF pskIndex = 0
                     THEN [key |-> copied, size |-> 0]
                     ELSE LET full == CopyInto(copied, defaultpsk)
                              last == Len(defaultpsk)
                          IN  [key |-> [full EXCEPT ![last] = (full[last] + pskIndex - 1) % 256],
                               size |-> Len(defaultpsk)]
          ELSE [key |-> copied, size |-> Len(psk)]

\* Lines 201-214: the development mode preferences
DevelopmentMode(ds) ==
    IF ds.no_save
      THEN [ds EXCEPT !.radio.preferences.screen_on_secs = 10,
                      !.radio.preferences.wait_bluetooth_secs = 10,
                      !.radio.preferences.position_broadcast_secs = 6 * 60,
                      !.radio.preferences.ls_secs = 60,
                      !.radio.preferences.region = "TW"]
      ELSE ds

\* A generation counter that moves two at a time
BumpGeneration_Twice(g) == g + 2

\* Line 112: radioGeneration++
BumpGeneration(g) == g + 1

RECURSIVE resetRadioConfig(_)
RECURSIVE installDefaultDeviceState(_)

\* NodeDB::resetRadioConfig: the state after the call and the value returned
resetRadioConfig(m) ==
    LET fr == m.devicestate.radio.preferences.factory_reset
        m1 == [m EXCEPT !.radioGeneration = BumpGeneration(m.radioGeneration)]
    IN  Bind(IF fr THEN installDefaultDeviceState(m1)
             ELSE IF Len(m1.devicestate.radio.channel_settings.psk) = 0
               THEN [m1 EXCEPT !.devicestate = DefaultPreferences(m1.devicestate)]
               ELSE m1, LAMBDA m2 :
        Bind(ConvertDefaultName(m2.devicestate), LAMBDA ds3 :
        Bind(ConvertDefaultPsk(ds3), LAMBDA ds4 :
        Bind(ExpandPsk(m2.activePSK, ds4.radio.channel_settings.psk), LAMBDA exp :
          [m |-> [m2 EXCEPT !.devicestate = DevelopmentMode(ds4),
                            !.channelName = ResolveChannelName(ds3),
                            !.activePSK = exp.key,
                            !.activePSKSize = exp.size],
           didFactoryReset |-> fr]))))

\* Lines 248-258: the owner of a blank device state, named after the MAC and the
\* node number
DefaultOwner(mac, nodeNum) ==
    [id |-> <<"!">> \o Hex02x(mac[1]) \o Hex02x(mac[2]) \o Hex02x(mac[3])
                    \o Hex02x(mac[4]) \o Hex02x(mac[5]) \o Hex02x(mac[6]),
     long_name |-> <<"U","n","k","n","o","w","n"," ">> \o Hex02x(mac[5]) \o Hex02x(mac[6]),
     short_name |-> <<"?">> \o Hex02X(nodeNum[2] % 256),
     macaddr |-> mac]

\* Lines 260-264: the region that was set before the wipe is put back
RestoreRegion(ds, oldRegion, oldRegionCode) ==
    [ds EXCEPT !.radio.preferences.region =
                   IF oldRegionCode # "Unset" THEN oldRegionCode ELSE @,
               !.my_node.region = IF Len(oldRegion) # 0 THEN oldRegion ELSE @]

\* Lines 228-238: the zeroed device state with its has_ flags set
BlankDeviceState ==
    [ZeroDeviceState EXCEPT !.has_my_node = TRUE, !.has_radio = TRUE,
                            !.has_owner = TRUE,
                            !.radio.has_channel_settings = TRUE,
                            !.radio.has_preferences = TRUE,
                            !.node_db_count = 0]

\* NodeDB::installDefaultDeviceState
installDefaultDeviceState(m) ==
    LET oldRegion     == m.devicestate.my_node.region
        oldRegionCode == m.devicestate.radio.preferences.region
        mac           == m.hwMacAddr
    IN  Bind(resetRadioConfig([m EXCEPT !.devicestate = BlankDeviceState]).m, LAMBDA m2 :
        Bind([m2 EXCEPT !.devicestate.my_node.has_gps = FALSE,
                        !.devicestate.my_node.message_timeout_msec = FLOOD_EXPIRE_TIME,
                        !.ourMacAddr = mac,
                        !.devicestate.owner.id = DefaultOwner(mac, U32Zero).id,
                        !.devicestate.owner.macaddr = mac], LAMBDA m3 :
        Bind(pickNewNodeNum(m3, Small32(NUM_RESERVED)).m, LAMBDA m4 :
          [m4 EXCEPT !.devicestate =
              RestoreRegion([m4.devicestate EXCEPT
                                !.owner = DefaultOwner(mac, m4.devicestate.my_node.my_node_num)],
                            oldRegion, oldRegionCode)])))

(***************************************************************************)
(* Persistence                                                             *)
(***************************************************************************)
\* A file is absent, or holds bytes: decodable says whether pb_decode accepts them,
\* ds is what pb_decode leaves in the zeroed devicestate (all of the message, or the
\* part decoded before the error).
NoFile == [present |-> FALSE, decodable |-> FALSE, ds |-> ZeroDeviceState]
FileOf(ds) == [present |-> TRUE, decodable |-> TRUE, ds |-> ds]
BadFile(partial) == [present |-> TRUE, decodable |-> FALSE, ds |-> partial]

\* pb_encode(DeviceState_fields) followed by pb_decode into a zeroed devicestate: a
\* submessage is written only when its has_ flag is set, and node_db only up to
\* node_db_count.
EncodedNode(info) ==
    [info EXCEPT !.user = IF info.has_user THEN info.user ELSE ZeroUser,
                 !.position = IF info.has_position THEN info.position ELSE ZeroPosition]

Encoded(ds) ==
    LET radio == [ds.radio EXCEPT
                    !.preferences = IF ds.radio.has_preferences
                                      THEN ds.radio.preferences ELSE ZeroPreferences,
                    !.channel_settings = IF ds.radio.has_channel_settings
                                           THEN ds.radio.channel_settings
                                           ELSE ZeroChannelSettings]
    IN  [ds EXCEPT !.my_node = IF ds.has_my_node THEN ds.my_node ELSE ZeroMyNodeInfo,
                   !.radio = IF ds.has_radio THEN radio ELSE ZeroRadioConfig,
                   !.owner = IF ds.has_owner THEN ds.owner ELSE ZeroUser,
                   !.node_db = [i \in Slots |-> IF i <= ds.node_db_count
                                                  THEN EncodedNode(ds.node_db[i])
                                                  ELSE ZeroNodeInfo]]

\* A load that takes a record of any version
loadFromDisk_AnyVersion(m, f) ==
    IF ~f.present
      THEN [m |-> m, outcome |-> "nofile"]
      ELSE LET m1 == [m EXCEPT !.devicestate = f.ds]
           IN  IF ~f.decodable
                 THEN [m |-> installDefaultDeviceState(m1), outcome |-> "undecodable"]
                 ELSE [m |-> m1, outcome |-> IF f.ds.version < DEVICESTATE_MIN_VER
                                               THEN "old" ELSE "loaded"]

\* NodeDB::loadFromDisk, reading the file f found under preffile
loadFromDisk(m, f) ==
    IF ~f.present
      THEN [m |-> m, outcome |-> "nofile"]
      ELSE LET m1 == [m EXCEPT !.devicestate = f.ds]  \* memset, then pb_decode
           IN  IF ~f.decodable
                 THEN [m |-> installDefaultDeviceState(m1), outcome |-> "undecodable"]
                 ELSE IF f.ds.version < DEVICESTATE_MIN_VER
                        THEN [m |-> installDefaultDeviceState(m1), outcome |-> "old"]
                        ELSE [m |-> m1, outcome |-> "loaded"]

\* Lines 303-312: an old style region string "1.0-XX" sets the region code
LegacyRegion(ds) ==
    LET region == ds.my_node.region
    IN  IF ds.radio.preferences.region = "Unset" /\ HasPrefix(region, <<"1",".","0","-">>)
             /\ SubSeq(region, 5, Len(region)) \in RegionNames
          THEN [ds EXCEPT !.radio.preferences.region =
                              RegionCodeOf(SubSeq(region, 5, Len(region)))]
          ELSE ds

\* Lines 275-285: the fields that come from the running build
BuildFields(ds) ==
    [ds EXCEPT !.my_node.node_num_bits = NodeNumBits,
               !.my_node.packet_id_bits = PacketIdBits,
               !.my_node.error_code = "None",
               !.my_node.error_address = 0,
               !.my_node.min_app_version = MIN_APP_VERSION]

\* Lines 291-315: our owner goes into the slot info, then the strings of the build
OwnEntry(ds, info, hv) ==
    LegacyRegion([ds EXCEPT !.node_db[info].user = ds.owner,
                            !.node_db[info].has_user = TRUE,
                            !.my_node.region = IF Len(hv) # 0 THEN hv ELSE @,
                            !.my_node.firmware_version = APP_VERSION,
                            !.my_node.hw_model = HW_VENDOR])

\* NodeDB::init. status is "ok" when init returns, "spin" when the allocator's loop
\* goes on after the draw rnd, "fatal" when the capacity assert fails;
\* loaded is devicestate as loadFromDisk left it.
init(m, f, rnd) ==
    Bind(installDefaultDeviceState(m), LAMBDA m1 :
    Bind(loadFromDisk(m1, f), LAMBDA ld :
    Bind(pickNewNodeNum([ld.m EXCEPT !.devicestate = BuildFields(ld.m.devicestate)], rnd),
         LAMBDA pick :
    Bind(getOrCreateNode(pick.m.devicestate, pick.m.devicestate.my_node.my_node_num),
         LAMBDA goc :
      IF ~pick.done
        THEN [m |-> pick.m, status |-> "spin", outcome |-> ld.outcome,
              loaded |-> ld.m.devicestate]
      ELSE IF goc.fatal
        THEN [m |-> [pick.m EXCEPT !.devicestate = goc.ds], status |-> "fatal",
              outcome |-> ld.outcome,
              loaded |-> ld.m.devicestate]
      ELSE [m |-> resetRadioConfig([pick.m EXCEPT !.devicestate =
                                       OwnEntry(goc.ds, goc.info, m.hwVersion)]).m,
            status |-> "ok", outcome |-> ld.outcome, loaded |-> ld.m.devicestate]))))

\* Line 403: devicestate.version = DEVICESTATE_CUR_VER
StampVersion(ds) == [ds EXCEPT !.version = DEVICESTATE_CUR_VER]

\* The steps of NodeDB::saveToDisk on the two files, d = [pref, tmp]; ok is whether
\* the file system call (or pb_encode) succeeds.

\* An open of the primary file in place of the temporary file
SaveOpen_Primary(d, ok) ==
    IF ok THEN [pref |-> FileOf(ZeroDeviceState), tmp |-> FileOf(ZeroDeviceState)] ELSE d

\* FS.open(preftmp, FILE_O_WRITE): a new, empty temporary file
SaveOpen(d, ok) ==
    IF ok THEN [d EXCEPT !.tmp = FileOf(ZeroDeviceState)] ELSE d

\* An encoding that removes the old file as soon as the temporary file is closed
SaveEncode_DropsOld(d, ds, ok) ==
    IF ok THEN [pref |-> NoFile, tmp |-> FileOf(Encoded(ds))]
          ELSE [d EXCEPT !.tmp = BadFile(ZeroDeviceState)]

\* pb_encode into the temporary file and f.close(): the message, or a part of it
SaveEncode(d, ds, ok) ==
    IF ok THEN [d EXCEPT !.tmp = FileOf(Encoded(ds))]
          ELSE [d EXCEPT !.tmp = BadFile(ZeroDeviceState)]

\* FS.remove(preffile)
SaveRemove(d, ok) ==
    IF ok THEN [d EXCEPT !.pref = NoFile] ELSE d

\* FS.rename(preftmp, preffile)
SaveRename(d, ok) ==
    IF ok THEN [pref |-> d.tmp, tmp |-> NoFile] ELSE d

(***************************************************************************)
(* The nodes heard of lately                                               *)
(***************************************************************************)
\* sinceLastSeen(n), with now what getTime() returns
sinceLastSeen(n, now) ==
    LET delta == Sub32(now, n.position.time)
    IN  IF Negative32(delta) THEN U32Zero ELSE delta

\* NodeDB::getNumOnlineNodes
getNumOnlineNodes(ds, now) ==
    Cardinality({i \in 1..ds.node_db_count :
                    Below32(sinceLastSeen(ds.node_db[i], now), NUM_ONLINE_SECS)})

(***************************************************************************)
(* Updates of the node table                                               *)
(***************************************************************************)
NoSignals == [notify |-> "none", power |-> FALSE, plugins |-> FALSE]

\* NodeDB::updatePosition: the record after the call, the slot flagged for the GUI
\* (0: updateGUIforNode is left alone) and the signals sent
updatePosition(ds, nodeId, p) ==
    Bind(getOrCreateNode(ds, nodeId), LAMBDA goc :
        IF goc.fatal
          THEN [ds |-> goc.ds, gui |-> 0, signals |-> NoSignals, fatal |-> TRUE]
          ELSE [ds |-> [goc.ds EXCEPT !.node_db[goc.info].position = p,
                                      !.node_db[goc.info].has_position = TRUE],
                gui |-> goc.info,
                signals |-> [NoSignals EXCEPT !.notify = "forced"],
                fatal |-> FALSE])

\* An update that tells everyone whether or not the user changed
updateUser_AlwaysTells(ds, nodeId, p) ==
    Bind(getOrCreateNode(ds, nodeId), LAMBDA goc :
        IF goc.fatal
          THEN [ds |-> goc.ds, gui |-> 0, signals |-> NoSignals, fatal |-> TRUE]
          ELSE [ds |-> [goc.ds EXCEPT !.node_db[goc.info].user = p,
                                      !.node_db[goc.info].has_user = TRUE],
                gui |-> goc.info,
                signals |-> [notify |-> "forced", power |-> TRUE, plugins |-> FALSE],
                fatal |-> FALSE])

\* NodeDB::updateUser
updateUser(ds, nodeId, p) ==
    Bind(getOrCreateNode(ds, nodeId), LAMBDA goc :
        IF goc.fatal
          THEN [ds |-> goc.ds, gui |-> 0, signals |-> NoSignals, fatal |-> TRUE]
          ELSE LET changed == goc.ds.node_db[goc.info].user # p
               IN  [ds |-> [goc.ds EXCEPT !.node_db[goc.info].user = p,
                                          !.node_db[goc.info].has_user = TRUE],
                    gui |-> IF changed THEN goc.info ELSE 0,
                    signals |-> IF changed
                                  THEN [notify |-> "forced", power |-> TRUE, plugins |-> FALSE]
                                  ELSE NoSignals,
                    fatal |-> FALSE])

\* A reception that makes has_position follow the receive time
NoteReception_FlagFollowsTime(ds, info, mp) ==
    [ds EXCEPT !.node_db[info].has_position = (mp.rx_time # U32Zero),
               !.node_db[info].position.time = IF mp.rx_time # U32Zero THEN mp.rx_time ELSE @,
               !.node_db[info].snr = mp.rx_snr]

\* Lines 517-522: the receive time and the SNR of the packet go into the slot info
NoteReception(ds, info, mp) ==
    [ds EXCEPT !.node_db[info].has_position = IF mp.rx_time # U32Zero THEN TRUE ELSE @,
               !.node_db[info].position.time = IF mp.rx_time # U32Zero THEN mp.rx_time ELSE @,
               !.node_db[info].snr = mp.rx_snr]

\* NodeDB::updateFrom
updateFrom(ds, mp) ==
    IF mp.which_payload # "decoded"
      THEN [ds |-> ds, gui |-> 0, signals |-> NoSignals, fatal |-> FALSE]
      ELSE
        Bind(getOrCreateNode(ds, mp.from), LAMBDA goc :
          IF goc.fatal
            THEN [ds |-> goc.ds, gui |-> 0, signals |-> NoSignals, fatal |-> TRUE]
            ELSE
              Bind(NoteReception(goc.ds, goc.info, mp), LAMBDA ds2 :
                CASE mp.decoded.which_payload = "position" ->
                       updatePosition(ds2, mp.from, mp.decoded.position)
                  [] mp.decoded.which_payload = "data" ->
                       [ds |-> ds2, gui |-> 0,
                        signals |-> [NoSignals EXCEPT !.plugins =
                                        (mp.to = NODENUM_BROADCAST
                                           \/ mp.to = ds2.my_node.my_node_num)],
                        fatal |-> FALSE]
                  [] mp.decoded.which_payload = "user" ->
                       updateUser(ds2, mp.from, mp.decoded.user)
                  [] OTHER ->
                       [ds |-> ds2, gui |-> 0,
                        signals |-> [NoSignals EXCEPT !.notify = "unforced"],
                        fatal |-> FALSE]))

(***************************************************************************)
(* The state                                                               *)
(***************************************************************************)
VARIABLES
    devicestate,      \* the DeviceState global
    radioGeneration,  \* the change number of the radio settings
    channelName,      \* the usable channel name (a pointer)
    activePSK,        \* the usable key, a buffer of 32 bytes
    activePSKSize,    \* how many bytes of activePSK are the key
    ourMacAddr,       \* the static copy of the hardware MAC
    updateGUIforNode, \* the slot the GUI should redraw, 0 for none
    signals,          \* what the last operation sent to observers, power FSM, plugins
    hwMacAddr,        \* what getMacAddr() returns on this device
    hwVersion,        \* the HW_VERSION string of this build, <<>> when not given
    disk,             \* the files /db.proto (pref) and /db.proto.tmp (tmp)
    pc,               \* where the main context is
    boots,            \* how many times the device was powered up again
    loadOutcome,      \* what the last loadFromDisk found
    loaded,           \* devicestate as the last loadFromDisk left it
    sv,               \* the last saveToDisk: the file it found, the record it wrote,
                      \* the calls that failed, where it stands
    append,           \* the getOrCreateNode in progress: its slot, its key, and the
                      \* stores of lines 570-574 not yet made (slot 0: none)
    isrSaw,           \* what the last getNode called from an interrupt was asked and
                      \* what it returned
    call              \* the last call that was recorded: its arguments, what it found
                      \* before it ran and what it returned

vars == <<devicestate, radioGeneration, channelName, activePSK, activePSKSize, ourMacAddr,
          updateGUIforNode, signals, hwMacAddr, hwVersion, disk, pc, boots,
          loadOutcome, loaded, sv, append, isrSaw, call>>

\* The program's globals together, as the operators above take them
M ==
    [devicestate |-> devicestate, radioGeneration |-> radioGeneration,
     channelName |-> channelName, activePSK |-> activePSK,
     activePSKSize |-> activePSKSize, ourMacAddr |-> ourMacAddr,
     hwMacAddr |-> hwMacAddr, hwVersion |-> hwVersion]

SetM(m) ==
    /\ devicestate' = m.devicestate
    /\ radioGeneration' = m.radioGeneration
    /\ channelName' = m.channelName
    /\ activePSK' = m.activePSK
    /\ activePSKSize' = m.activePSKSize
    /\ ourMacAddr' = m.ourMacAddr

\* The globals of a program just started: static storage is zeroed
Constructed(mac, hv) ==
    [devicestate |-> ZeroDeviceState, radioGeneration |-> 0,
     channelName |-> Literal(""), activePSK |-> [i \in 1..ACTIVE_PSK_LEN |-> 0],
     activePSKSize |-> 0, ourMacAddr |-> ZeroMac,
     hwMacAddr |-> mac, hwVersion |-> hv]

NoSave ==
    [prev |-> NoFile, rec |-> ZeroDeviceState, failed |-> {}, removed |-> FALSE,
     at |-> "none", crashAt |-> "none"]

\* A file loadFromDisk accepts
GoodFile(f) == f.present /\ f.decodable /\ f.ds.version >= DEVICESTATE_MIN_VER

NoAppend == [slot |-> 0, n |-> U32Zero, pending |-> {}]

\* No call recorded. op is the function called; n the node number and t the time it
\* was given, kind the payload of the packet; info the slot it returned; gui, gen, fr,
\* psk, stored what updateGUIforNode, radioGeneration, factory_reset, the channel key
\* and my_node_num were before; changed whether the user given differed from the
\* stored one; again whether the call before was the same call; retries the passes
\* of the loop of pickNewNodeNum.
NoCall ==
    [op |-> "none", n |-> U32Zero, t |-> U32Zero, kind |-> "none", info |-> 0,
     gui |-> 0, gen |-> 0, fr |-> FALSE, psk |-> <<>>, stored |-> U32Zero,
     changed |-> FALSE, again |-> FALSE, retries |-> 0, ret |-> FALSE]

(***************************************************************************)
(* Inputs                                                                  *)
(***************************************************************************)
\* Hardware MACs: one that gives node number 9, one that gives the broadcast number
HwMacs == {<<16, 32, 0, 0, 0, 9>>, <<16, 32, 255, 255, 255, 255>>}
HwVersions == {<<>>, <<"1",".","0","-","E","U","4","3","3">>}

\* Another device, and what it sends
PeerMac == <<16, 32, 0, 0, 0, 66>>
PeerUser == [id |-> <<"!","p">>, long_name |-> <<"P">>, short_name |-> <<"P">>,
             macaddr |-> PeerMac]
PeerPosition == [time |-> Small32(900), latitude_i |-> 5]

Packet(from, to, rx_time, kind) ==
    [from |-> from, to |-> to, rx_time |-> rx_time, rx_snr |-> 7,
     which_payload |-> IF kind = "encrypted" THEN "encrypted" ELSE "decoded",
     decoded |-> [which_payload |-> kind, position |-> PeerPosition, user |-> PeerUser]]

Packets ==
    {Packet(Small32(66), NODENUM_BROADCAST, Small32(1000), "position"),
     Packet(Small32(66), NODENUM_BROADCAST, U32Zero, "user"),
     Packet(U32Zero, Small32(9), Small32(1000), "other"),
     Packet(NODENUM_BROADCAST, NODENUM_BROADCAST, U32Zero, "data"),
     Packet(Small32(5), Small32(9), Small32(1000), "encrypted")}

\* What random(NUM_RESERVED, NODENUM_BROADCAST) may return
RandomDraws == {Small32(NUM_RESERVED), Small32(66), Small32(77)}

\* The record a first boot without a file leaves, as saveToDisk writes it
SavedByFirstBoot(mac, hv) ==
    [init(Constructed(mac, hv), NoFile, Small32(NUM_RESERVED)).m.devicestate
        EXCEPT !.version = DEVICESTATE_CUR_VER]

\* The files the device may hold when it is powered up
DiskInputs(mac, hv) ==
    LET good == SavedByFirstBoot(mac, hv)
        me   == good.my_node.my_node_num
    IN  { NoFile,
          BadFile([ZeroDeviceState EXCEPT !.my_node.region = <<"1",".","0","-","U","S">>]),
          FileOf([good EXCEPT !.version = DEVICESTATE_CUR_VER - 1,
                              !.radio.preferences.region = "TW"]),
          FileOf(good),
          FileOf([good EXCEPT !.radio.preferences.factory_reset = TRUE]),
          FileOf([good EXCEPT !.no_save = TRUE]),
          FileOf([good EXCEPT !.radio.channel_settings.name = "Default",
                              !.radio.channel_settings.psk = defaultpsk]),
          \* a peer took our number: it sent its user under it
          FileOf(updateUser(good, me, PeerUser).ds),
          \* a message of the version field alone
          FileOf([ZeroDeviceState EXCEPT !.version = DEVICESTATE_CUR_VER]) }

Init ==
    /\ hwMacAddr \in HwMacs
    /\ hwVersion \in HwVersions
    /\ devicestate = ZeroDeviceState
    /\ radioGeneration = 0
    /\ channelName = Literal("")
    /\ activePSK = [i \in 1..ACTIVE_PSK_LEN |-> 0]
    /\ activePSKSize = 0
    /\ ourMacAddr = ZeroMac
    /\ updateGUIforNode = 0
    /\ signals = NoSignals
    /\ \E f \in DiskInputs(hwMacAddr, hwVersion) : disk = [pref |-> f, tmp |-> NoFile]
    /\ pc = "constructed"
    /\ boots = 0
    /\ loadOutcome = "none"
    /\ loaded = ZeroDeviceState
    /\ sv = NoSave
    /\ append = NoAppend
    /\ isrSaw = [n |-> U32Zero, info |-> 0, torn |-> FALSE]
    /\ call = NoCall

(***************************************************************************)
(* Operations                                                              *)
(***************************************************************************)
\* NodeDB::init at power up
Boot ==
    /\ pc = "constructed"
    /\ \E rnd \in RandomDraws :
         LET res == init(M, disk.pref, rnd)
         IN  /\ SetM(res.m)
             /\ pc' = CASE res.status = "ok" -> "run"
                        [] res.status = "fatal" -> "halted"
                        [] OTHER -> "spin"
             /\ loadOutcome' = res.outcome
             /\ loaded' = res.loaded
    /\ UNCHANGED <<updateGUIforNode, signals, hwMacAddr, hwVersion, disk, boots, sv, append, isrSaw, call>>

\* What a table update leaves: the record, the GUI pointer, the signals; a failed
\* capacity assert stops the program
Apply(res) ==
    /\ devicestate' = res.ds
    /\ updateGUIforNode' = IF res.fatal \/ res.gui = 0 THEN updateGUIforNode ELSE res.gui
    /\ signals' = res.signals
    /\ pc' = IF res.fatal THEN "halted" ELSE "run"
    /\ UNCHANGED <<radioGeneration, channelName, activePSK, activePSKSize, ourMacAddr,
                   hwMacAddr, hwVersion, disk, boots, loadOutcome, loaded, sv, append, isrSaw, call>>

UpdateFrom(mp) ==
    /\ pc = "run"
    /\ Apply(updateFrom(devicestate, mp))

UpdateUser(nodeId, p) ==
    /\ pc = "run"
    /\ Apply(updateUser(devicestate, nodeId, p))

UpdatePosition(nodeId, p) ==
    /\ pc = "run"
    /\ Apply(updatePosition(devicestate, nodeId, p))

GetOrCreateNode(n) ==
    /\ pc = "run"
    /\ LET goc == getOrCreateNode(devicestate, n)
       IN  Apply([ds |-> goc.ds, gui |-> 0, signals |-> NoSignals, fatal |-> goc.fatal])

ResetRadioConfig ==
    /\ pc = "run"
    /\ radioGeneration < MaxGeneration
    /\ SetM(resetRadioConfig(M).m)
    /\ signals' = NoSignals
    /\ UNCHANGED <<updateGUIforNode, hwMacAddr, hwVersion, disk, pc, boots,
                   loadOutcome, loaded, sv, append, isrSaw, append, isrSaw, call>>

PickNewNodeNum(rnd) ==
    /\ pc = "run"
    /\ LET pick == pickNewNodeNum(M, rnd)
       IN  /\ SetM(pick.m)
           /\ pc' = IF pick.done THEN "run" ELSE "spin"
    /\ signals' = NoSignals
    /\ UNCHANGED <<updateGUIforNode, hwMacAddr, hwVersion, disk, boots,
                   loadOutcome, loaded, sv, append, isrSaw, append, isrSaw, call>>

\* NodeDB::saveToDisk, lines 394-396: nothing in development mode, else the
\* temporary file is opened
SaveBegin ==
    /\ pc = "run"
    /\ IF devicestate.no_save
         THEN /\ sv' = [NoSave EXCEPT !.prev = disk.pref, !.at = "skipped"]
              /\ UNCHANGED <<disk, pc, append, isrSaw, call>>
         ELSE \E ok \in BOOLEAN :
                /\ disk' = SaveOpen(disk, ok)
                /\ pc' = IF ok THEN "save_opened" ELSE "run"
                /\ sv' = [NoSave EXCEPT !.prev = disk.pref,
                                        !.rec = StampVersion(devicestate),
                                        !.failed = IF ok THEN {} ELSE {"open"},
                                        !.at = IF ok THEN "running" ELSE "returned"]
    /\ signals' = NoSignals
    /\ UNCHANGED <<devicestate, radioGeneration, channelName, activePSK, activePSKSize,
                   ourMacAddr, updateGUIforNode, hwMacAddr, hwVersion, boots,
                   loadOutcome, loaded, append, isrSaw, call>>

\* Lines 399-411: the version is stamped and the record is written and closed
SaveWrite ==
    /\ pc = "save_opened"
    /\ devicestate' = StampVersion(devicestate)
    /\ \E ok \in BOOLEAN :
         /\ disk' = SaveEncode(disk, devicestate', ok)
         /\ pc' = IF ok THEN "save_closed" ELSE "run"
         /\ sv' = [sv EXCEPT !.rec = devicestate',
                             !.failed = IF ok THEN @ ELSE @ \cup {"encode"},
                             !.at = IF ok THEN "running" ELSE "returned"]
    /\ UNCHANGED <<radioGeneration, channelName, activePSK, activePSKSize, ourMacAddr,
                   updateGUIforNode, signals, hwMacAddr, hwVersion, boots,
                   loadOutcome, loaded, append, isrSaw, call>>

\* Lines 414-415: the old file is removed (it cannot be when there is none)
SaveRemoveOld ==
    /\ pc = "save_closed"
    /\ \E ok \in (IF disk.pref.present THEN BOOLEAN ELSE {FALSE}) :
         /\ disk' = SaveRemove(disk, ok)
         /\ sv' = [sv EXCEPT !.removed = ok,
                             !.failed = IF ok THEN @ ELSE @ \cup {"remove"}]
    /\ pc' = "save_removed"
    /\ UNCHANGED <<devicestate, radioGeneration, channelName, activePSK, activePSKSize,
                   ourMacAddr, updateGUIforNode, signals, hwMacAddr, hwVersion, boots,
                   loadOutcome, loaded, append, isrSaw, call>>

\* Lines 416-417: the temporary file is renamed, and saveToDisk returns
SaveRenameTmp ==
    /\ pc = "save_removed"
    /\ \E ok \in BOOLEAN :
         /\ disk' = SaveRename(disk, ok)
         /\ sv' = [sv EXCEPT !.failed = IF ok THEN @ ELSE @ \cup {"rename"},
                             !.at = "returned"]
    /\ pc' = "run"
    /\ UNCHANGED <<devicestate, radioGeneration, channelName, activePSK, activePSKSize,
                   ourMacAddr, updateGUIforNode, signals, hwMacAddr, hwVersion, boots,
                   loadOutcome, loaded, append, isrSaw, call>>

\* The power is lost and comes back: the files stay (a temporary file being written
\* is cut short), the program starts again with zeroed statics
PowerLoss ==
    /\ pc # "constructed"
    /\ boots < MaxBoots
    /\ boots' = boots + 1
    /\ disk' = IF pc = "save_opened" THEN [disk EXCEPT !.tmp = BadFile(ZeroDeviceState)]
               ELSE disk
    /\ sv' = [sv EXCEPT !.crashAt = IF @ = "none" THEN pc ELSE @,
                        !.at = IF @ = "running" THEN "crashed" ELSE @]
    /\ SetM(Constructed(hwMacAddr, hwVersion))
    /\ updateGUIforNode' = 0
    /\ signals' = NoSignals
    /\ pc' = "constructed"
    /\ loadOutcome' = "none"
    /\ loaded' = ZeroDeviceState
    /\ UNCHANGED <<hwMacAddr, hwVersion, append, isrSaw, call>>

\* getOrCreateNode(n) on a miss, in the steps an interrupt can fall between. The
\* stores of lines 570-574 are the count ("count"), the memset ("zero") and the num
\* ("num"); nothing orders them for an interrupt handler but that the memset and the
\* num go to the same bytes, so they become visible in any order that keeps the
\* memset before the num.
AppendBegin(n) ==
    /\ pc = "run"
    /\ append.slot = 0
    /\ getNode(devicestate, n) = 0
    /\ devicestate.node_db_count < MAX_NUM_NODES
    /\ append' = [slot |-> devicestate.node_db_count + 1, n |-> n,
                  pending |-> {"count", "zero", "num"}]
    /\ UNCHANGED <<devicestate, radioGeneration, channelName, activePSK, activePSKSize,
                   ourMacAddr, updateGUIforNode, signals, hwMacAddr, hwVersion, disk, pc,
                   boots, loadOutcome, loaded, sv, isrSaw, call>>

AppendStore(w) ==
    /\ append.slot # 0
    /\ w \in append.pending
    /\ w = "num" => "zero" \notin append.pending
    /\ devicestate' =
         CASE w = "count" -> [devicestate EXCEPT !.node_db_count = append.slot]
           [] w = "zero"  -> [devicestate EXCEPT !.node_db[append.slot] = ZeroNodeInfo]
           [] OTHER       -> [devicestate EXCEPT !.node_db[append.slot].num = append.n]
    /\ append' = IF append.pending = {w} THEN NoAppend
                 ELSE [append EXCEPT !.pending = @ \ {w}]
    /\ UNCHANGED <<radioGeneration, channelName, activePSK, activePSKSize,
                   ourMacAddr, updateGUIforNode, signals, hwMacAddr, hwVersion, disk, pc,
                   boots, loadOutcome, loaded, sv, isrSaw, call>>

\* NodeDB::getNode called from an interrupt handler, at any point of the main context.
\* torn: the slot returned is one whose memset or num store is still to come.
IsrGetNode(n) ==
    /\ pc = "run"
    /\ LET info == getNode(devicestate, n)
       IN  isrSaw' = [n |-> n, info |-> info,
                      torn |-> info # 0 /\ info = append.slot
                                 /\ append.pending \cap {"zero", "num"} # {}]
    /\ UNCHANGED <<devicestate, radioGeneration, channelName, activePSK, activePSKSize,
                   ourMacAddr, updateGUIforNode, signals, hwMacAddr, hwVersion, disk, pc,
                   boots, loadOutcome, loaded, sv, append, call>>

Next ==
    \/ Boot
    \/ \E mp \in Packets : UpdateFrom(mp)
    \/ UpdateUser(devicestate.my_node.my_node_num, PeerUser)
    \/ UpdatePosition(Small32(66), [time |-> U32Zero, latitude_i |-> 6])
    \/ \E n \in {Small32(66), Small32(77)} : GetOrCreateNode(n)
    \/ ResetRadioConfig
    \/ \E rnd \in RandomDraws : PickNewNodeNum(rnd)

Spec == Init /\ [][Next]_vars

\* The packets heard while the persistence is exercised
PersistPackets ==
    {Packet(Small32(66), NODENUM_BROADCAST, Small32(1000), "position"),
     Packet(U32Zero, Small32(9), Small32(1000), "other")}

NextPersist ==
    \/ Boot
    \/ \E mp \in PersistPackets : UpdateFrom(mp)
    \/ SaveBegin
    \/ SaveWrite
    \/ SaveRemoveOld
    \/ SaveRenameTmp
    \/ PowerLoss

SpecPersist == Init /\ [][NextPersist]_vars

(***************************************************************************)
(* The node table read from an interrupt while the main context appends    *)
(***************************************************************************)
IsrKeys == {U32Zero, Small32(66), Small32(77)}

NextIsr ==
    \/ Boot
    \/ \E n \in IsrKeys \ {U32Zero} : AppendBegin(n)
    \/ \E w \in {"count", "zero", "num"} : AppendStore(w)
    \/ \E n \in IsrKeys : IsrGetNode(n)

SpecIsr == Init /\ [][NextIsr]_vars

(***************************************************************************)
(* The operations on a device state of synthesized defaults                *)
(***************************************************************************)
InitDefaults ==
    /\ hwMacAddr \in HwMacs
    /\ hwVersion \in HwVersions
    /\ \E m \in {installDefaultDeviceState(Constructed(hwMacAddr, hwVersion))} :
         /\ devicestate = m.devicestate
         /\ radioGeneration = m.radioGeneration
         /\ channelName = m.channelName
         /\ activePSK = m.activePSK
         /\ activePSKSize = m.activePSKSize
         /\ ourMacAddr = m.ourMacAddr
    /\ updateGUIforNode = 0
    /\ signals = NoSignals
    /\ disk = [pref |-> NoFile, tmp |-> NoFile]
    /\ pc = "run"
    /\ boots = 0
    /\ loadOutcome = "none"
    /\ loaded = ZeroDeviceState
    /\ sv = NoSave
    /\ append = NoAppend
    /\ isrSaw = [n |-> U32Zero, info |-> 0, torn |-> FALSE]
    /\ call = NoCall

NextDefaults ==
    \/ \E mp \in Packets : UpdateFrom(mp)
    \/ \E n \in {devicestate.my_node.my_node_num, Small32(66)} : UpdateUser(n, PeerUser)
    \/ UpdatePosition(Small32(66), [time |-> U32Zero, latitude_i |-> 6])
    \/ \E n \in {Small32(66), Small32(77)} : GetOrCreateNode(n)
    \/ ResetRadioConfig
    \/ \E rnd \in RandomDraws : PickNewNodeNum(rnd)

SpecDefaults == InitDefaults /\ [][NextDefaults]_vars

(***************************************************************************)
(* pickNewNodeNum pass by pass, on any stored number and table             *)
(***************************************************************************)
\* What no step below changes
rest == <<radioGeneration, channelName, activePSK, activePSKSize, ourMacAddr, hwMacAddr,
          hwVersion, disk, boots, loadOutcome, loaded, sv, append, isrSaw>>

\* The program after installDefaultDeviceState, with devicestate one of dss
InitFrom(dss(_)) ==
    /\ hwMacAddr \in HwMacs
    /\ hwVersion \in HwVersions
    /\ \E m \in {installDefaultDeviceState(Constructed(hwMacAddr, hwVersion))} :
         /\ devicestate \in dss(m.devicestate)
         /\ radioGeneration = m.radioGeneration
         /\ channelName = m.channelName
         /\ activePSK = m.activePSK
         /\ activePSKSize = m.activePSKSize
         /\ ourMacAddr = m.ourMacAddr
    /\ updateGUIforNode = 0
    /\ signals = NoSignals
    /\ disk = [pref |-> NoFile, tmp |-> NoFile]
    /\ pc = "run"
    /\ boots = 0
    /\ loadOutcome = "none"
    /\ loaded = ZeroDeviceState
    /\ sv = NoSave
    /\ append = NoAppend
    /\ isrSaw = [n |-> U32Zero, info |-> 0, torn |-> FALSE]
    /\ call = NoCall

\* What random(NUM_RESERVED, NODENUM_BROADCAST) may return in the loop
PickDraws == {Small32(NUM_RESERVED), Small32(9), Small32(66), Small32(77), U32(65535, 65534)}

\* The numbers my_node_num may hold when pickNewNodeNum is called
StoredNums == {U32Zero, Small32(3), Small32(NUM_RESERVED), Small32(9), Small32(66),
               NODENUM_BROADCAST}

\* ds with the node n known under the MAC mac
WithUser(ds, n, mac) == updateUser(ds, n, [PeerUser EXCEPT !.macaddr = mac]).ds

\* Tables for pickNewNodeNum: empty, candidates taken by another device, the own
\* number already under the own MAC
PickTables(ds) ==
    {ds,
     WithUser(ds, Small32(NUM_RESERVED), PeerMac),
     WithUser(ds, Small32(9), PeerMac),
     WithUser(ds, Small32(9), ds.owner.macaddr),
     WithUser(WithUser(ds, Small32(NUM_RESERVED), PeerMac), Small32(9), PeerMac),
     WithUser(WithUser(ds, Small32(NUM_RESERVED), PeerMac), Small32(66), PeerMac)}

PickInputs(ds) ==
    {[t EXCEPT !.my_node.my_node_num = r] : t \in PickTables(ds), r \in StoredNums}

InitPick == InitFrom(PickInputs)

\* Lines 331-338
PickBegin ==
    /\ pc = "run"
    /\ pc' = "picking"
    /\ call' = [NoCall EXCEPT !.op = "pickNewNodeNum", !.n = PickStart(M),
                              !.stored = devicestate.my_node.my_node_num]
    /\ UNCHANGED <<devicestate, updateGUIforNode, signals, rest>>

\* Lines 341-345: the candidate is in use under another MAC, another is drawn
PickRetry(rnd) ==
    /\ pc = "picking"
    /\ InUseByOther(devicestate, call.n)
    /\ call' = [call EXCEPT !.n = NextCandidate(call.n, rnd),
                            !.retries = IF @ < MaxRetries THEN @ + 1 ELSE @]
    /\ UNCHANGED <<devicestate, updateGUIforNode, signals, pc, rest>>

\* A pass of the loop in which random() returns a number that will be accepted
PickRetryFree ==
    \E rnd \in PickDraws : ~InUseByOther(devicestate, rnd) /\ PickRetry(rnd)

\* Line 347
PickStore ==
    /\ pc = "picking"
    /\ ~InUseByOther(devicestate, call.n)
    /\ devicestate' = [devicestate EXCEPT !.my_node.my_node_num = call.n]
    /\ pc' = "picked"
    /\ UNCHANGED <<updateGUIforNode, signals, call, rest>>

NextPick ==
    \/ PickBegin
    \/ \E rnd \in PickDraws : PickRetry(rnd)
    \/ PickStore

\* random() does not keep all the numbers that would be accepted from the loop for
\* ever, and the program goes on running
SpecPick ==
    /\ InitPick
    /\ [][NextPick]_vars
    /\ WF_vars(PickRetryFree)
    /\ WF_vars(PickStore)

(***************************************************************************)
(* Packets with receive times, and the count of the nodes online           *)
(***************************************************************************)
\* A table update that is recorded as the call c
Record(res, c) ==
    /\ devicestate' = res.ds
    /\ updateGUIforNode' = IF res.fatal \/ res.gui = 0 THEN updateGUIforNode ELSE res.gui
    /\ signals' = res.signals
    /\ pc' = IF res.fatal THEN "halted" ELSE "run"
    /\ call' = c
    /\ UNCHANGED rest

PayloadOf(mp) ==
    IF mp.which_payload = "decoded" THEN mp.decoded.which_payload ELSE "encrypted"

CallUpdateFrom(mp) ==
    /\ pc = "run"
    /\ Record(updateFrom(devicestate, mp),
              [NoCall EXCEPT !.op = "updateFrom", !.n = mp.from, !.t = mp.rx_time,
                             !.kind = PayloadOf(mp)])

\* getNumOnlineNodes() when getTime() returns now; info is the count returned
CallGetNumOnlineNodes(now) ==
    /\ pc = "run"
    /\ call' = [NoCall EXCEPT !.op = "getNumOnlineNodes", !.t = now,
                              !.info = getNumOnlineNodes(devicestate, now)]
    /\ UNCHANGED <<devicestate, updateGUIforNode, signals, pc, rest>>

\* A packet whose position payload carries the time ptime
ClockPacket(from, rx_time, kind, ptime) ==
    [Packet(from, NODENUM_BROADCAST, rx_time, kind) EXCEPT !.decoded.position.time = ptime]

\* Position packets received at time 1000 whose payload has the same time, an
\* earlier time or none; other packets received early, late and without a time
ClockPackets ==
    {ClockPacket(Small32(66), Small32(1000), "position", pt) :
        pt \in {Small32(1000), Small32(900), U32Zero}}
    \cup {ClockPacket(Small32(77), rx, "other", U32Zero) :
              rx \in {U32Zero, Small32(1000), U32(36864, 0)}}

\* What getTime() may return
ClockTimes == {U32Zero, Small32(1010), Small32(1200), U32(32768, 5), U32(65535, 65535)}

InitOne(ds) == {ds}
InitClock == InitFrom(InitOne)

NextClock ==
    \/ \E mp \in ClockPackets : CallUpdateFrom(mp)
    \/ \E now \in ClockTimes : CallGetNumOnlineNodes(now)

SpecClock == InitClock /\ [][NextClock]_vars

(***************************************************************************)
(* The table operations, each recorded with what it found and returned     *)
(***************************************************************************)
\* The user stored for n: that of its entry, or the zeroed user of a new entry
StoredUser(ds, n) ==
    LET info == getNode(ds, n)
    IN  IF info = 0 THEN ZeroUser ELSE ds.node_db[info].user

OtherUser == [PeerUser EXCEPT !.long_name = <<"Q">>]

CallUpdateUser(nodeId, p) ==
    /\ pc = "run"
    /\ Record(updateUser(devicestate, nodeId, p),
              [NoCall EXCEPT !.op = "updateUser", !.n = nodeId,
                             !.info = getOrCreateNode(devicestate, nodeId).info,
                             !.gui = updateGUIforNode,
                             !.changed = (StoredUser(devicestate, nodeId) # p)])

CallUpdatePosition(nodeId, p) ==
    /\ pc = "run"
    /\ Record(updatePosition(devicestate, nodeId, p),
              [NoCall EXCEPT !.op = "updatePosition", !.n = nodeId, !.t = p.time])

CallGetOrCreateNode(n) ==
    /\ pc = "run"
    /\ LET goc == getOrCreateNode(devicestate, n)
       IN  Record([ds |-> goc.ds, gui |-> 0, signals |-> NoSignals, fatal |-> goc.fatal],
                  [NoCall EXCEPT !.op = "getOrCreateNode", !.n = n, !.info = goc.info,
                                 !.again = (call.op = "getOrCreateNode" /\ call.n = n)])

CallPickNewNodeNum(rnd) ==
    /\ pc = "run"
    /\ LET pick == pickNewNodeNum(M, rnd)
       IN  /\ devicestate' = pick.m.devicestate
           /\ pc' = IF pick.done THEN "run" ELSE "spin"
    /\ signals' = NoSignals
    /\ call' = [NoCall EXCEPT !.op = "pickNewNodeNum",
                              !.stored = devicestate.my_node.my_node_num]
    /\ UNCHANGED <<updateGUIforNode, rest>>

CallKeys == {Small32(66), Small32(77)}

CallPackets ==
    {Packet(Small32(66), NODENUM_BROADCAST, Small32(1000), "position"),
     Packet(Small32(66), NODENUM_BROADCAST, U32Zero, "user"),
     Packet(Small32(77), NODENUM_BROADCAST, U32Zero, "other"),
     Packet(Small32(77), NODENUM_BROADCAST, Small32(1000), "other")}

NextCalls ==
    \/ \E mp \in CallPackets : CallUpdateFrom(mp)
    \/ \E n \in CallKeys, p \in {PeerUser, OtherUser} : CallUpdateUser(n, p)
    \/ CallUpdatePosition(Small32(77), PeerPosition)
    \/ \E n \in CallKeys : CallGetOrCreateNode(n)
    \/ \E rnd \in RandomDraws : CallPickNewNodeNum(rnd)

SpecCalls == InitClock /\ [][NextCalls]_vars

(***************************************************************************)
(* resetRadioConfig over the stored channel keys                           *)
(***************************************************************************)
\* A key of sixteen bytes that is not the default one
CustomPsk == [i \in 1..16 |-> 100 + i]

\* What channelSettings.psk may hold when resetRadioConfig is called
StoredPsks ==
    {<<>>, <<0>>, <<1>>, <<2>>, <<66>>, <<255>>, <<7, 7>>, defaultpsk, CustomPsk}

\* resetRadioConfig called with the key psk stored and the factory_reset
\* preference fr
CallResetRadioConfig(psk, fr) ==
    /\ pc = "run"
    /\ radioGeneration < MaxGeneration
    /\ SetM(resetRadioConfig(
               [M EXCEPT !.devicestate.radio.channel_settings.psk = psk,
                         !.devicestate.radio.preferences.factory_reset = fr]).m)
    /\ call' = [NoCall EXCEPT !.op = "resetRadioConfig", !.gen = radioGeneration,
                              !.fr = fr, !.psk = psk]
    /\ signals' = NoSignals
    /\ UNCHANGED <<updateGUIforNode, hwMacAddr, hwVersion, disk, pc, boots,
                   loadOutcome, loaded, sv, append, isrSaw>>

NextKey == \E psk \in StoredPsks, fr \in BOOLEAN : CallResetRadioConfig(psk, fr)

SpecKey == InitClock /\ [][NextKey]_vars

(***************************************************************************)
(* getChannelName                                                          *)
(***************************************************************************)
RECURSIVE XorBits(_, _, _)
\* a ^ b over the low k bits
XorBits(a, b, k) ==
    IF k = 0 THEN 0
    ELSE (((a % 2) + (b % 2)) % 2) + 2 * XorBits(a \div 2, b \div 2, k - 1)

RECURSIVE XorKey(_, _)
\* Lines 93-95: code ^= activePSK[i] for i below n, code a uint8_t starting at 0
XorKey(key, n) ==
    IF n = 0 THEN 0 ELSE XorBits(XorKey(key, n - 1), key[n], 8)

\* getChannelName: the name and the suffix character (its byte) that snprintf
\* writes into buf
getChannelName(m) ==
    LET psk == m.devicestate.radio.channel_settings.psk
    IN  [name |-> m.channelName,
         suffix |-> IF Len(psk) # 1
                      THEN 65 + (XorKey(m.activePSK, m.activePSKSize) % 26)
                      ELSE (48 + psk[1]) % 256]

CallGetChannelName ==
    /\ pc = "run"
    /\ call' = [NoCall EXCEPT !.op = "getChannelName",
                              !.info = getChannelName(M).suffix,
                              !.psk = devicestate.radio.channel_settings.psk]
    /\ UNCHANGED <<devicestate, updateGUIforNode, signals, pc, rest>>

\* The keys stored when the name is asked for: one-byte keys below and above 10,
\* and keys of other sizes
NamePsks ==
    {<<>>, <<0>>, <<1>>, <<2>>, <<9>>, <<10>>, <<66>>, <<208>>, <<255>>,
     <<7, 7>>, defaultpsk, CustomPsk}

NextName ==
    \/ \E psk \in NamePsks, fr \in BOOLEAN : CallResetRadioConfig(psk, fr)
    \/ CallGetChannelName

SpecName == InitClock /\ [][NextName]_vars

(***************************************************************************)
(* resetRadioConfig called twice in a row                                  *)
(***************************************************************************)
\* The channel names a stored record may carry
StoredNames == {"", "Default", "Mesh"}

\* resetRadioConfig called on a record with the key psk, the factory_reset
\* preference fr, the channel name name and the no_save flag nosave
CallResetRadioConfigOn(psk, fr, name, nosave) ==
    /\ pc = "run"
    /\ radioGeneration < MaxGeneration
    /\ \E res \in {resetRadioConfig(
                       [M EXCEPT !.devicestate.radio.channel_settings.psk = psk,
                                 !.devicestate.radio.channel_settings.name = name,
                                 !.devicestate.radio.preferences.factory_reset = fr,
                                 !.devicestate.no_save = nosave])} :
         /\ SetM(res.m)
         /\ call' = [NoCall EXCEPT !.op = "resetRadioConfig", !.gen = radioGeneration,
                                   !.fr = fr, !.psk = psk, !.ret = res.didFactoryReset]
    /\ signals' = NoSignals
    /\ UNCHANGED <<updateGUIforNode, hwMacAddr, hwVersion, disk, pc, boots,
                   loadOutcome, loaded, sv, append, isrSaw>>

\* resetRadioConfig called again, directly after a resetRadioConfig, on the
\* record that call left
CallResetRadioConfigAgain ==
    /\ pc = "run"
    /\ call.op = "resetRadioConfig"
    /\ radioGeneration < MaxGeneration
    /\ \E res \in {resetRadioConfig(M)} :
         /\ SetM(res.m)
         /\ call' = [NoCall EXCEPT !.op = "resetRadioConfig", !.gen = radioGeneration,
                                   !.fr = devicestate.radio.preferences.factory_reset,
                                   !.psk = devicestate.radio.channel_settings.psk,
                                   !.ret = res.didFactoryReset, !.again = TRUE]
    /\ signals' = NoSignals
    /\ UNCHANGED <<updateGUIforNode, hwMacAddr, hwVersion, disk, pc, boots,
                   loadOutcome, loaded, sv, append, isrSaw>>

NextTwice ==
    \/ \E psk \in StoredPsks, fr \in BOOLEAN, name \in StoredNames, nosave \in BOOLEAN :
          CallResetRadioConfigOn(psk, fr, name, nosave)
    \/ CallResetRadioConfigAgain
    \/ CallUpdateFrom(Packet(Small32(66), NODENUM_BROADCAST, Small32(1000), "position"))

SpecTwice == InitClock /\ [][NextTwice]_vars

(***************************************************************************)
(* Properties                                                              *)
(***************************************************************************)
Count == devicestate.node_db_count
Nodes == devicestate.node_db
OwnNum == devicestate.my_node.my_node_num

\* C1: once init() has returned, after any later operations and for any decodable
\* file it loaded (the factory reset flag set included), the node table holds an
\* entry whose num is the device's own node number.
C1_OwnEntryAfterInit ==
    pc = "run" => getNode(devicestate, OwnNum) # 0

\* C2: whatever fails inside saveToDisk (opening the temporary file, encoding,
\* removing the old file, renaming the temporary file), the primary file holds
\* exactly its previous content when saveToDisk returns.
C2_FailedSaveKeepsPrimary ==
    (sv.at = "returned" /\ sv.failed # {} /\ GoodFile(sv.prev)) => disk.pref = sv.prev

\* The power was lost inside the last saveToDisk, which had found a good primary
\* file, and the device has booted again.
CrashedInSave ==
    /\ sv.at = "crashed"
    /\ GoodFile(sv.prev)
    /\ loadOutcome # "none"

LoadedOldOrNew ==
    /\ loadOutcome = "loaded"
    /\ loaded \in {sv.prev.ds, sv.rec}

\* C3: with a good primary file, a power loss at any step of saveToDisk makes the
\* next boot's loadFromDisk yield the record persisted before or the record being
\* saved; it never finds no usable persisted state.
C3_PowerLossAtAnyStep ==
    CrashedInSave => LoadedOldOrNew

\* C3 as amended: the same, except when the power is lost after the old file was
\* removed and before the temporary file was renamed; then the next boot finds no
\* file at all.
C3_PowerLossOutsideWindow ==
    CrashedInSave =>
        IF sv.crashAt = "save_removed" /\ sv.removed
          THEN loadOutcome = "nofile"
          ELSE LoadedOldOrNew

C3_Witness ==
    /\ CrashedInSave
    /\ sv.crashAt = "save_closed"
    /\ loadOutcome = "loaded"
    /\ loaded = sv.prev.ds
    /\ sv.rec # sv.prev.ds

\* C4: saveToDisk does not remove or change the primary file before the encoding
\* into the temporary file has succeeded: while the temporary file is being
\* written, and after a power loss at that point, the primary file holds exactly
\* its previous content.
C4_PrimaryKeptWhileWriting ==
    (pc = "save_opened" \/ sv.crashAt = "save_opened") => disk.pref = sv.prev

C4_Witness ==
    /\ sv.crashAt = "save_opened"
    /\ sv.prev.present
    /\ disk.tmp.present
    /\ pc = "run"

\* C5: however an interrupt's getNode interleaves with an appending
\* getOrCreateNode, every slot below the count is fully constructed (zeroed and
\* holding its final num), and getNode never returns a slot that is not.
C5_OnlyConstructedSlotsVisible ==
    /\ \A i \in 1..Count :
         ~(i = append.slot /\ append.pending \cap {"zero", "num"} # {})
    /\ ~isrSaw.torn

\* C6: no entry of the node table has num 0 or the broadcast number, whatever
\* sender the packets given to updateFrom carry and whatever node number
\* updateUser and updatePosition are given.
C6_NoReservedKeys ==
    \A i \in 1..Count : Nodes[i].num \notin {U32Zero, NODENUM_BROADCAST}

\* C7: from synthesized defaults, after any sequence of getOrCreateNode,
\* updateUser, updatePosition, updateFrom, pickNewNodeNum and resetRadioConfig no
\* two entries below the count have the same num, and the num of an entry never
\* changes once the entry exists.
C7_UniqueImmutableNum ==
    /\ [](\A i, j \in 1..Count : Nodes[i].num = Nodes[j].num => i = j)
    /\ [][\A i \in 1..Count : i <= devicestate'.node_db_count
                                /\ devicestate'.node_db[i].num = Nodes[i].num]_vars

C7_Witness ==
    /\ Count >= 2
    /\ \E i \in 1..Count : Nodes[i].has_user /\ Nodes[i].has_position
                             /\ Nodes[i].position.latitude_i = 6

\* C8: 0 <= node_db_count <= MAX_NUM_NODES always; a getOrCreateNode of an unknown
\* key on a full table stops the program without writing a slot or raising the
\* count, and a running program raises the count only one at a time, below the
\* capacity.
C8_CountWithinCapacity ==
    /\ [](Count \in 0..MAX_NUM_NODES)
    /\ [][pc = "run" =>
            /\ pc' = "halted" => (Count = MAX_NUM_NODES /\ devicestate' = devicestate)
            /\ devicestate'.node_db_count > Count =>
                  (Count < MAX_NUM_NODES /\ devicestate'.node_db_count = Count + 1)]_vars

C8_Witness ==
    /\ pc = "halted"
    /\ Count = MAX_NUM_NODES
    /\ loadOutcome = "nofile"

\* devicestate without the region code and the region string
SansRegion(ds) ==
    [ds EXCEPT !.radio.preferences.region = "Unset", !.my_node.region = <<>>]

\* C9: when the file does not decode, or decodes with a version below 11,
\* loadFromDisk leaves devicestate equal to what installDefaultDeviceState produces
\* (no nodes, default channel settings, the owner made anew), but for the region
\* code and the region string.
C9_LoadFallsBackToDefaults ==
    loadOutcome \in {"undecodable", "old"} =>
        /\ SansRegion(loaded) =
             SansRegion(installDefaultDeviceState(Constructed(hwMacAddr, hwVersion)).devicestate)
        /\ loaded.node_db_count = 0

C9_Witness ==
    /\ loadOutcome = "old"
    /\ disk.pref.ds.node_db_count > 0
    /\ loaded.radio.preferences.region = "TW"

\* C10: a saveToDisk that meets no failure and runs with no_save clear, followed by
\* loadFromDisk, leaves devicestate equal to the record that was saved, with version
\* 11.
C10_SaveThenLoad ==
    (sv.at = "returned" /\ sv.failed = {} /\ sv.crashAt # "none" /\ loadOutcome # "none") =>
        /\ loadOutcome = "loaded"
        /\ loaded = sv.rec
        /\ loaded.version = DEVICESTATE_CUR_VER

\* C11: when init() returns, whatever the file held (none, undecodable, too old, any
\* decodable record, the factory reset flag set included), my_node has the bit
\* widths, the minimum app version, the firmware version and the hardware model of
\* the running build, the error code None and the error address 0.
C11_BuildFieldsAfterInit ==
    pc = "run" =>
        /\ devicestate.my_node.node_num_bits = NodeNumBits
        /\ devicestate.my_node.packet_id_bits = PacketIdBits
        /\ devicestate.my_node.min_app_version = MIN_APP_VERSION
        /\ devicestate.my_node.firmware_version = APP_VERSION
        /\ devicestate.my_node.hw_model = HW_VENDOR
        /\ devicestate.my_node.error_code = "None"
        /\ devicestate.my_node.error_address = 0

\* C12: whatever number was stored, whatever the MAC and whatever the table holds,
\* the number pickNewNodeNum stores is not the broadcast number and not below
\* NUM_RESERVED (4).
C12_PickedNumberValid ==
    pc = "picked" =>
        /\ OwnNum # NODENUM_BROADCAST
        /\ ~Below32(OwnNum, NUM_RESERVED)

C12_Witness ==
    /\ pc = "picked"
    /\ call.stored = U32Zero
    /\ ourMacAddr = <<16, 32, 255, 255, 255, 255>>
    /\ OwnNum = Small32(NUM_RESERVED)

C14_PositionPacketStampsReceiveTime ==
    (call.op = "updateFrom" /\ call.kind = "position" /\ call.t # U32Zero /\ pc = "run") =>
        LET info == getNode(devicestate, call.n)
        IN  /\ info # 0
            /\ Nodes[info].has_position
            /\ Nodes[info].position.time = call.t
            /\ Below32(sinceLastSeen(Nodes[info], Add32(call.t, 10)), NUM_ONLINE_SECS)
            /\ ~Below32(sinceLastSeen(Nodes[info], Add32(call.t, 200)), NUM_ONLINE_SECS)

\* The time since a node was seen as the claim has it: now - time when time <= now,
\* 0 when time > now
ElapsedClamped(time, now) == IF Le32(time, now) THEN Sub32(now, time) ELSE U32Zero

\* C15: for every time now and every table, getNumOnlineNodes returns the number of
\* entries whose elapsed time is below 120 seconds, the elapsed time being
\* now - position.time when position.time <= now and 0 when position.time > now.
C15_OnlineCountExact ==
    call.op = "getNumOnlineNodes" =>
        call.info = Cardinality({i \in 1..Count :
                        Below32(ElapsedClamped(Nodes[i].position.time, call.t),
                                NUM_ONLINE_SECS)})

\* C16: an updateUser whose user is byte for byte the one stored for the node leaves
\* updateGUIforNode as it was, triggers no EVENT_NODEDB_UPDATED and notifies no
\* observer; when the user differs from the stored one all three happen.
C16_UpdateUserTellsOnChangeOnly ==
    (call.op = "updateUser" /\ pc = "run") =>
        IF call.changed
          THEN /\ updateGUIforNode = call.info
               /\ signals.power
               /\ signals.notify = "forced"
          ELSE /\ updateGUIforNode = call.gui
               /\ ~signals.power
               /\ signals.notify = "none"

C16_Witness ==
    /\ call.op = "updateUser" /\ pc = "run"
    /\ ~call.changed
    /\ call.gui # 0 /\ call.gui # call.info
    /\ updateGUIforNode = call.gui
    /\ Nodes[call.info].user = OtherUser

\* C17: getOrCreateNode is idempotent: a second getOrCreateNode with the same key
\* returns the slot the first returned and leaves the count and every entry as they
\* were.
C17_GetOrCreateIdempotent ==
    [][(call'.op = "getOrCreateNode" /\ call'.again) =>
          /\ call'.info = call.info
          /\ devicestate' = devicestate
          /\ pc' = "run"]_vars

C17_Witness ==
    /\ call.op = "getOrCreateNode" /\ call.again
    /\ call.info = 2
    /\ Nodes[call.info].num = call.n
    /\ ~Nodes[call.info].has_user /\ ~Nodes[call.info].has_position

\* C19: has_user and has_position of an entry, once set, are set in every later
\* state that updateUser, updatePosition, updateFrom, getOrCreateNode and
\* pickNewNodeNum lead to, and no entry leaves the table.
C19_FlagsMonotonic ==
    [][\A i \in 1..Count :
          /\ i <= devicestate'.node_db_count
          /\ Nodes[i].has_user => devicestate'.node_db[i].has_user
          /\ Nodes[i].has_position => devicestate'.node_db[i].has_position]_vars

C19_Witness ==
    /\ call.op = "updateFrom" /\ call.kind = "other" /\ call.t = U32Zero
    /\ LET info == getNode(devicestate, call.n)
       IN  /\ info # 0
           /\ Nodes[info].has_position
           /\ Nodes[info].has_user

\* The live key that the one-byte stored key N stands for
LiveKeyIs(N) ==
    IF N = 0
      THEN activePSKSize = 0
      ELSE /\ activePSKSize = 16
           /\ \A i \in 1..15 : activePSK[i] = defaultpsk[i]
           /\ activePSK[16] = (defaultpsk[16] + N - 1) % 256

\* C18 (as stated): after resetRadioConfig with a stored one-byte key N the live key
\* has length 0 for N = 0, and otherwise is the 16-byte default key with its last
\* byte moved by N - 1 modulo 256.
C18_CompactKeyExpanded ==
    (call.op = "resetRadioConfig" /\ Len(call.psk) = 1) => LiveKeyIs(call.psk[1])

\* C18 (amended): the same, for a call that finds the factory_reset preference
\* clear; a factory reset discards the stored key before the expansion.
C18_CompactKeyExpandedNoReset ==
    (call.op = "resetRadioConfig" /\ ~call.fr /\ Len(call.psk) = 1) =>
        LiveKeyIs(call.psk[1])

C18_Witness ==
    /\ call.op = "resetRadioConfig" /\ ~call.fr
    /\ call.psk = <<66>>
    /\ activePSKSize = 16
    /\ activePSK[16] = 0

\* C20 (as stated): every resetRadioConfig call increases radioGeneration by exactly
\* one, whichever branch it takes.
C20_GenerationPlusOne ==
    call.op = "resetRadioConfig" => radioGeneration = call.gen + 1

\* C20 (amended): a resetRadioConfig call increases radioGeneration by one, and by
\* two when it takes the factory reset branch, whose installDefaultDeviceState
\* calls resetRadioConfig again.
C20_GenerationPlusOneOrTwo ==
    call.op = "resetRadioConfig" =>
        radioGeneration = call.gen + (IF call.fr THEN 2 ELSE 1)

C20_Witness ==
    /\ call.op = "resetRadioConfig" /\ call.fr
    /\ radioGeneration = call.gen + 2

\* C21: when the stored key has size 1 the suffix getChannelName builds is the
\* decimal digit character '0'..'9' of the key index; when the stored key has
\* another size it is 'A' + ((XOR of the bytes of the live key) mod 26).
C21_SuffixDigitOrLetter ==
    call.op = "getChannelName" =>
        IF Len(call.psk) = 1
          THEN /\ call.info \in 48..57
               /\ call.psk[1] <= 9 => call.info = 48 + call.psk[1]
          ELSE call.info = 65 + (XorKey(activePSK, activePSKSize) % 26)

\* C22: a resetRadioConfig directly after a resetRadioConfig returns false and
\* leaves the stored channel settings and preferences, the node table, channelName
\* and the live key and its length as the first call left them; only
\* radioGeneration differs.
C22_SecondResetChangesNothing ==
    [][(call'.op = "resetRadioConfig" /\ call'.again) =>
          /\ ~call'.ret
          /\ devicestate' = devicestate
          /\ channelName' = channelName
          /\ activePSK' = activePSK
          /\ activePSKSize' = activePSKSize
          /\ ourMacAddr' = ourMacAddr
          /\ radioGeneration' # radioGeneration]_vars

C22_Witness ==
    /\ call.op = "resetRadioConfig" /\ call.again /\ ~call.ret
    /\ call.psk = <<2>>
    /\ activePSKSize = 16 /\ activePSK[16] = 192
    /\ devicestate.radio.channel_settings.name = "Mesh"
    /\ devicestate.no_save
    /\ Count = 1

=============================================================================
